---- MODULE Spec2Model ----
(***************************************************************************)
(* State-machine model of src/main.rs: the SvgConverterApp session, its    *)
(* per-frame handler update(), the dimension query update_dimensions() and *)
(* the conversion svg_to_png().                                            *)
(*                                                                         *)
(* u32 values are kept at their full 32-bit width as two 16-bit limbs      *)
(* <<hi, lo>>, so that `w * self.scale` overflows exactly where the        *)
(* program's does.  An f64 intrinsic size is <<hi, lo, tenths>> with hi    *)
(* unbounded; `as u32` truncates the fraction and saturates.               *)
(***************************************************************************)
EXTENDS Integers, Sequences, FiniteSets, TLC

VARIABLES
    app,              \* the SvgConverterApp struct
    disk,             \* file system: path -> file content
    target_os,        \* cfg(target_os) of the build
    overflow_checks,  \* build profile: TRUE = debug (overflow panics), FALSE = release (wraps)
    crashed,          \* the process has panicked
    form,             \* labels drawn by the last frame
    event,            \* what happened in the last frame
    frames,           \* number of frames run
    clicks,           \* number of frames in which Convert was clicked
    calls,            \* number of svg_to_png invocations
    last,             \* result of the most recent svg_to_png invocation
    written           \* destination -> the request whose PNG it holds, if any

vars ==
    <<app, disk, target_os, overflow_checks, crashed, form, event, frames, clicks, calls,
      last, written>>

----------------------------------------------------------------------------
(* Option<T> *)
None == <<"None">>
Some(x) == <<"Some", x>>
IsSome(o) == o[1] = "Some"
Unwrap(o) == o[2]

(* u32 as two 16-bit limbs *)
LimbBase == 65536
U32(n) == <<n \div LimbBase, n % LimbBase>>
U32Max == <<LimbBase - 1, LimbBase - 1>>
IsZero(x) == x = <<0, 0>>

\* the exact (unbounded) product x * s as three limbs <<carry, hi, lo>>
WideMul(x, s) ==
    LET lo == x[2] * s
        hi == x[1] * s + (lo \div LimbBase)
    IN  <<hi \div LimbBase, hi % LimbBase, lo % LimbBase>>

Widen(x) == <<0, x[1], x[2]>>

\* Rust's `a * b` on u32: panics on overflow when overflow checks are on
\* (debug profile), wraps mod 2^32 otherwise (release profile)
MulU32(x, s) ==
    LET p == WideMul(x, s)
    IN  [panic |-> overflow_checks /\ p[1] # 0, value |-> <<p[2], p[3]>>]

\* `f as u32` for a positive finite f64: truncate toward zero, saturate
AsU32(f) == IF f[1] >= LimbBase THEN U32Max ELSE <<f[1], f[2]>>

----------------------------------------------------------------------------
(* Files *)
Missing == [kind |-> "missing"]
Binary == [kind |-> "binary"]       \* opens, but is not valid UTF-8
Text == [kind |-> "text"]           \* valid UTF-8 that is not an SVG document
Svg(name, w, h) == [kind |-> "svg", name |-> name, width |-> w, height |-> h]
Png(w, h, doc, s) == [kind |-> "png", width |-> w, height |-> h, doc |-> doc, scale |-> s]

LogoSvg == Svg("logo", <<0, 100, 0>>, <<0, 50, 0>>)         \* 100 x 50
ThinSvg == Svg("thin", <<0, 100, 5>>, <<0, 0, 5>>)          \* 100.5 x 0.5
WideSvg == Svg("wide", <<1024, 25, 0>>, <<0, 1, 0>>)        \* 67108889 x 1

InputPaths == {"", "logo.svg", "thin.svg", "wide.svg", "gone.svg", "notes.txt", "blob.svg"}
OutputPaths == {"output.png", "alt.png", "/nodir/out.png"}
Paths == InputPaths \cup OutputPaths

\* destinations whose directory does not exist: creating the file fails
Unwritable == {"/nodir/out.png"}

SourceFiles ==
    [p \in Paths |->
        CASE p = "logo.svg" -> LogoSvg
          [] p = "thin.svg" -> ThinSvg
          [] p = "wide.svg" -> WideSvg
          [] p = "notes.txt" -> Text
          [] p = "blob.svg" -> Binary
          [] OTHER -> Missing]

\* File::open
FileOpen(d, path) == d[path].kind # "missing"
\* BufReader::read_to_string: fails on bytes that are not UTF-8 (a PNG is not)
ReadToString(d, path) == d[path].kind \in {"text", "svg"}
\* usvg::Tree::from_str
TreeFromStr(d, path) == d[path].kind = "svg"

\* tiny_skia::Pixmap::new: None for a zero side or a row longer than i32::MAX bytes
PixmapNew(w, h) ==
    IF IsZero(w) \/ IsZero(h) \/ w[1] >= 8192 THEN None ELSE Some(<<w, h>>)

----------------------------------------------------------------------------
(* impl Default for SvgConverterApp *)
Default ==
    [input_path |-> "", output_path |-> "output.png", scale |-> 1,
     status_message |-> <<"">>,
     original_width |-> None, original_height |-> None,
     will_be_width |-> None, will_be_height |-> None]

\* Option::map(|w| w * self.scale)
MapMul(o, s) ==
    IF IsSome(o)
    THEN LET m == MulU32(Unwrap(o), s) IN [panic |-> m.panic, value |-> Some(m.value)]
    ELSE [panic |-> FALSE, value |-> None]

\* LoadDimensions with a failed load reported in the status line
LoadDimensionsReporting(self, d) ==
    IF self.input_path = ""
    THEN [self EXCEPT !.original_width = None, !.original_height = None]
    ELSE IF FileOpen(d, self.input_path) /\ ReadToString(d, self.input_path)
            /\ TreeFromStr(d, self.input_path)
         THEN [self EXCEPT
                  !.original_width = Some(AsU32(d[self.input_path].width)),
                  !.original_height = Some(AsU32(d[self.input_path].height))]
         ELSE [self EXCEPT !.status_message = <<"Error: ", "load">>]

\* update_dimensions, lines 37-52: reload the intrinsic size from the input file
LoadDimensions(self, d) ==
    IF self.input_path = ""
    THEN [self EXCEPT !.original_width = None, !.original_height = None]
    ELSE IF FileOpen(d, self.input_path) /\ ReadToString(d, self.input_path)
            /\ TreeFromStr(d, self.input_path)
         THEN [self EXCEPT
                  !.original_width = Some(AsU32(d[self.input_path].width)),
                  !.original_height = Some(AsU32(d[self.input_path].height))]
         ELSE self

\* SvgConverterApp::update_dimensions; a panic leaves the fields written so far
update_dimensions(self, d) ==
    LET loaded == LoadDimensions(self, d)
        ww == MapMul(loaded.original_width, loaded.scale)
        wh == MapMul(loaded.original_height, loaded.scale)
    IN  IF ww.panic THEN [panic |-> TRUE, self |-> loaded]
        ELSE IF wh.panic
             THEN [panic |-> TRUE, self |-> [loaded EXCEPT !.will_be_width = ww.value]]
             ELSE [panic |-> FALSE,
                   self |-> [loaded EXCEPT !.will_be_width = ww.value,
                                           !.will_be_height = wh.value]]

----------------------------------------------------------------------------
(* Result<(), Box<dyn Error>> of svg_to_png, plus a panic outcome *)
Ok == <<"Ok">>
Err(e) == <<"Err", e>>
Panic == <<"Panic">>
NotCalled == <<"NotCalled">>
ErrPixmap == "Failed to create pixmap"

\* ScaledDims with the scale clamped to at least 1
ScaledDimsClamped(self, doc) ==
    LET s == IF self.scale = 0 THEN 1 ELSE self.scale
    IN  [width |-> MulU32(AsU32(doc.width), s), height |-> MulU32(AsU32(doc.height), s)]

\* svg_to_png, lines 71-72: the raster's sides
ScaledDims(self, doc) ==
    [width |-> MulU32(AsU32(doc.width), self.scale),
     height |-> MulU32(AsU32(doc.height), self.scale)]

\* RenderPng with the session's status line embedded in the file
RenderPngStamped(self, doc, w, h) == Png(w, h, <<doc, self.status_message>>, self.scale)

\* svg_to_png, lines 78-84: the PNG rendered from doc under the scale transform
RenderPng(self, doc, w, h) == Png(w, h, doc, self.scale)

\* Pixmap::save_png: creates or truncates the destination
SavePng(d, path, png) == [d EXCEPT ![path] = png]

\* what one svg_to_png invocation did: its result, whether spawning the viewer
\* failed, and the file system it left
Outcome(self, d, res, raster, d2, spawnFailed) ==
    [result |-> res, spawn_failed |-> spawnFailed, raster |-> raster, disk |-> d2]

\* SvgConverterApp::svg_to_png; spawn_ok is whether `open` can be spawned
svg_to_png(self, d, spawn_ok) ==
    IF ~FileOpen(d, self.input_path) THEN Outcome(self, d, Err("open"), None, d, FALSE)
    ELSE IF ~ReadToString(d, self.input_path)
         THEN Outcome(self, d, Err("read"), None, d, FALSE)
    ELSE IF ~TreeFromStr(d, self.input_path)
         THEN Outcome(self, d, Err("parse"), None, d, FALSE)
    ELSE
      LET doc == d[self.input_path]
          dims == ScaledDims(self, doc)
          pixmap == PixmapNew(dims.width.value, dims.height.value)
      IN  IF dims.width.panic \/ dims.height.panic
          THEN Outcome(self, d, Panic, None, d, FALSE)
          ELSE IF ~IsSome(pixmap) THEN Outcome(self, d, Err(ErrPixmap), None, d, FALSE)
          ELSE IF self.output_path \in Unwritable
               THEN Outcome(self, d, Err("write"), pixmap, d, FALSE)
          ELSE
            LET d2 == SavePng(d, self.output_path,
                              RenderPng(self, doc, dims.width.value, dims.height.value))
            IN  IF target_os = "macos" /\ ~spawn_ok
                THEN Outcome(self, d, Err("spawn"), pixmap, d2, TRUE)
                ELSE Outcome(self, d, Ok, pixmap, d2, FALSE)

NoCall == [result |-> NotCalled, spawn_failed |-> FALSE, repeat |-> FALSE]

\* the request a conversion serves
Request(self) == [input |-> self.input_path, scale |-> self.scale]

\* what is remembered of the invocation that wrote a destination
Entry(self, o) == [request |-> Request(self), ok |-> o.result = Ok]

\* whether the invocation got as far as writing the PNG
Wrote(o) == o.result = Ok \/ o.spawn_failed

\* the part of an Outcome kept in the state; repeat: the invocation rewrote a
\* destination that already held the PNG of the same request
Kept(self, o) ==
    [result |-> o.result, spawn_failed |-> o.spawn_failed,
     repeat |-> /\ Wrote(o)
                /\ IsSome(written[self.output_path])
                /\ Unwrap(written[self.output_path]).request = Request(self)]

\* the bookkeeping of which request each destination's content came from
Record(self, o) ==
    IF Wrote(o) THEN [written EXCEPT ![self.output_path] = Some(Entry(self, o))] ELSE written

\* update(), lines 173-183: the status message for a result
StatusFor(self, res) ==
    IF res = Ok THEN <<"Successfully converted ", self.input_path, " to ", self.output_path>>
    ELSE <<"Error: ", res[2]>>

\* update(), lines 152-168 and 187: the labels drawn
Labels(self) ==
    [original_size |->
        IF IsSome(self.original_width) /\ IsSome(self.original_height)
        THEN Some(<<Unwrap(self.original_width), Unwrap(self.original_height)>>) ELSE None,
     will_be_size |->
        IF IsSome(self.will_be_width) /\ IsSome(self.will_be_height)
        THEN Some(<<Unwrap(self.will_be_width), Unwrap(self.will_be_height)>>) ELSE None,
     status |-> self.status_message]

----------------------------------------------------------------------------
(* The scale selector's values, line 142 *)
Scales == {1, 2, 4, 8, 16, 32, 64}

\* bound on the number of frames explored
MaxFrames == 4

Init ==
    /\ app = Default
    /\ disk = SourceFiles
    /\ target_os \in {"macos", "linux"}
    /\ overflow_checks \in BOOLEAN
    /\ crashed = FALSE
    /\ form = Labels(Default)
    /\ event = "start"
    /\ frames = 0
    /\ clicks = 0
    /\ calls = 0
    /\ last = NoCall
    /\ written = [p \in Paths |-> None]

\* update(), lines 104-148: the widgets' effect on the session for one user event
ApplyEvent(self, ev) ==
    CASE ev.kind = "edit_input" -> [self EXCEPT !.input_path = ev.value]
      [] ev.kind = "edit_output" -> [self EXCEPT !.output_path = ev.value]
      [] ev.kind = "select_scale" -> [self EXCEPT !.scale = ev.value]
      [] OTHER -> self

\* the event loop runs until the process panics (and, here, for MaxFrames frames)
Running == ~crashed /\ frames < MaxFrames

\* eframe::App::update for one frame in which the user does ev.  A panic in
\* update_dimensions unwinds out of the event loop before any widget is built.
Frame(ev, spawn_ok) ==
    LET ud == update_dimensions(app, disk)
        edited == ApplyEvent(ud.self, ev)
        conv == svg_to_png(edited, disk, spawn_ok)
    IN  /\ frames' = frames + 1
        /\ UNCHANGED <<target_os, overflow_checks>>
        /\ IF ud.panic
           THEN /\ crashed' = TRUE
                /\ app' = ud.self
                /\ event' = "panic"
                /\ UNCHANGED <<disk, form, clicks, calls, last, written>>
           ELSE IF ev.kind # "convert"
           THEN /\ app' = edited
                /\ form' = Labels(edited)
                /\ event' = ev.kind
                /\ UNCHANGED <<disk, crashed, clicks, calls, last, written>>
           ELSE /\ clicks' = clicks + 1
                /\ calls' = calls + 1
                /\ last' = Kept(edited, conv)
                /\ written' = Record(edited, conv)
                /\ disk' = conv.disk
                /\ event' = ev.kind
                /\ IF conv.result = Panic
                   THEN /\ crashed' = TRUE
                        /\ app' = edited
                        /\ UNCHANGED form
                   ELSE /\ crashed' = FALSE
                        /\ app' = [edited EXCEPT
                                      !.status_message = StatusFor(edited, conv.result)]
                        /\ form' = Labels(app')

\* a redraw tick with no user input
Redraw ==
    /\ Running
    /\ Frame([kind |-> "redraw"], TRUE)

\* typing in the input field, or picking a file with Browse (lines 107-116)
EditInput ==
    /\ Running
    /\ \E p \in InputPaths : Frame([kind |-> "edit_input", value |-> p], TRUE)

\* typing in the output field, or picking a file with Browse (lines 123-131)
EditOutput ==
    /\ Running
    /\ \E p \in OutputPaths : Frame([kind |-> "edit_output", value |-> p], TRUE)

\* choosing a value in the scale combo box (lines 139-147)
SelectScale ==
    /\ Running
    /\ \E s \in Scales : Frame([kind |-> "select_scale", value |-> s], TRUE)

\* clicking Convert (lines 172-184)
ClickConvert ==
    /\ Running
    /\ \E spawn_ok \in BOOLEAN : Frame([kind |-> "convert"], spawn_ok)

Next == Redraw \/ EditInput \/ EditOutput \/ SelectScale \/ ClickConvert

Spec == Init /\ [][Next]_vars

----------------------------------------------------------------------------
(* The two functions applied directly to arbitrary sessions: svg_to_png and   *)
(* update_dimensions take any u32 scale, not only the selector's values.      *)
ScaleArgs == {0, 1, 4, 64}

\* a destination that already holds a PNG
OldPng == Png(U32(7), U32(7), LogoSvg, 7)

InitFn ==
    /\ \E i \in InputPaths, o \in OutputPaths, s \in ScaleArgs :
          app = [Default EXCEPT !.input_path = i, !.output_path = o, !.scale = s]
    /\ disk \in {SourceFiles, [SourceFiles EXCEPT !["output.png"] = OldPng]}
    /\ target_os \in {"macos", "linux"}
    /\ overflow_checks \in BOOLEAN
    /\ crashed = FALSE
    /\ form = Labels(Default)
    /\ event = "start"
    /\ frames = 0
    /\ clicks = 0
    /\ calls = 0
    /\ last = NoCall
    /\ written = [p \in Paths |-> None]

\* one invocation of svg_to_png on the session as it is
CallSvgToPng ==
    \E spawn_ok \in BOOLEAN :
        LET conv == svg_to_png(app, disk, spawn_ok)
        IN  /\ Running
            /\ frames' = frames + 1
            /\ calls' = calls + 1
            /\ last' = Kept(app, conv)
            /\ written' = Record(app, conv)
            /\ disk' = conv.disk
            /\ crashed' = (conv.result = Panic)
            /\ event' = "svg_to_png"
            /\ UNCHANGED <<app, target_os, overflow_checks, form, clicks>>

\* one invocation of update_dimensions on the session as it is
CallUpdateDimensions ==
    LET ud == update_dimensions(app, disk)
    IN  /\ Running
        /\ frames' = frames + 1
        /\ app' = ud.self
        /\ crashed' = ud.panic
        /\ event' = "update_dimensions"
        /\ UNCHANGED <<disk, target_os, overflow_checks, form, clicks, calls, last, written>>

NextFn == CallSvgToPng \/ CallUpdateDimensions

SpecFn == InitFn /\ [][NextFn]_vars

----------------------------------------------------------------------------
(* Properties *)

\* the integer part of a size times s, exactly, as three limbs
Times(x, s) ==
    LET lo == x[2] * s
        mid == x[1] * s + (lo \div LimbBase)
    IN  <<mid \div LimbBase, mid % LimbBase, lo % LimbBase>>

\* a step in which svg_to_png is invoked; app' then holds the request it served
ConvertStep == calls' = calls + 1
Src == disk[app'.input_path]
Dst == app'.output_path
Succeeded(status) == status[1] = "Successfully converted "

\* the PNG at path p is doc rendered at exactly (intrinsic size) x s
ExactPng(png, doc, s) ==
    /\ png.kind = "png"
    /\ png.doc = doc
    /\ png.scale = s
    /\ Widen(png.width) = Times(doc.width, s)
    /\ Widen(png.height) = Times(doc.height, s)

\* C1: a successful svg_to_png of a valid SVG of truncated size (w, h) at a
\* scale s >= 1 leaves a raster of exactly w*s by h*s at the destination.
C1_ExactRaster ==
    [][(ConvertStep /\ last'.result = Ok /\ app'.scale >= 1)
         => ExactPng(disk'[Dst], Src, app'.scale)]_vars

\* C1: the 100x50 logo converted at scale 4 gives a 400x200 raster
C1_Logo400x200 ==
    /\ disk["output.png"].kind = "png"
    /\ disk["output.png"].doc = LogoSvg
    /\ disk["output.png"].width = U32(400)
    /\ disk["output.png"].height = U32(200)

\* the input path names a file update_dimensions can load
Loadable(d, path) == path # "" /\ d[path].kind = "svg"

\* C2: a frame whose update_dimensions ran on an input path that is empty,
\* missing, unreadable or not an SVG leaves original_width and original_height
\* None and draws neither size label.
C2_NoDimensionsForBadPath ==
    [][(frames' = frames + 1 /\ ~crashed' /\ app'.input_path = app.input_path
          /\ ~Loadable(disk, app.input_path))
         => (/\ app'.original_width = None
             /\ app'.original_height = None
             /\ form'.original_size = None
             /\ form'.will_be_size = None)]_vars

\* C3: svg_to_png with scale 0 on a readable, parseable source fails with
\* "Failed to create pixmap" and leaves every file as it was.
C3_ScaleZeroFailsBeforeWrite ==
    [][(ConvertStep /\ app'.scale = 0 /\ Src.kind = "svg")
         => (last'.result = Err(ErrPixmap) /\ disk' = disk)]_vars

\* C3: a scale-0 conversion of an SVG onto an existing PNG has been refused
C3_ScaleZeroRefused ==
    /\ event = "svg_to_png"
    /\ app.scale = 0
    /\ disk[app.input_path].kind = "svg"
    /\ app.output_path = "output.png"
    /\ disk["output.png"] = OldPng
    /\ last.result = Err(ErrPixmap)

\* C4: when spawning the viewer fails, svg_to_png still returns Ok and the
\* status line shows the success message.
C4_ViewerIsBestEffort ==
    last.spawn_failed => (last.result = Ok /\ Succeeded(app.status_message))

\* the scaled size of doc at s is zero or exceeds u32 on some side
Degenerate(doc, s) ==
    LET w == Times(doc.width, s)
        h == Times(doc.height, s)
    IN  w = <<0, 0, 0>> \/ h = <<0, 0, 0>> \/ w[1] # 0 \/ h[1] # 0

\* C5: when the scaled size is zero or does not fit u32, svg_to_png fails with
\* "Failed to create pixmap" and writes nothing.
C5_NoWrappedRaster ==
    [][(ConvertStep /\ Src.kind = "svg" /\ Degenerate(Src, app'.scale))
         => (last'.result = Err(ErrPixmap) /\ disk' = disk)]_vars

\* C5: a zero-height SVG has been refused with the allocation error
C5_ZeroSizeRefused ==
    /\ event = "convert"
    /\ app.input_path = "thin.svg"
    /\ last.result = Err(ErrPixmap)
    /\ app.status_message = <<"Error: ", ErrPixmap>>

\* C6: no failure ends the session, and a failed conversion is shown as
\* "Error: ..." in the status line.
C6_FailuresAreNotFatal ==
    /\ ~crashed
    /\ last.result # Panic
    /\ last.result[1] = "Err" => app.status_message = <<"Error: ", last.result[2]>>

\* C6: after a failed conversion a later Convert with a corrected input succeeded
C6_RetrySucceeded ==
    /\ frames = 3
    /\ calls = 2
    /\ event = "convert"
    /\ last.result = Ok
    /\ ~last.repeat
    /\ Succeeded(app.status_message)
    /\ written = [p \in Paths |->
                    IF p = app.output_path
                    THEN Some([request |-> Request(app), ok |-> TRUE]) ELSE None]

\* C7: a successful conversion onto a destination that holds the result of an
\* earlier successful conversion of the same source at another scale leaves
\* exactly the later result there (intrinsic size times the later scale) and
\* touches no other file.
C7_OnlyLatestResult ==
    [][(/\ ConvertStep
        /\ last'.result = Ok
        /\ IsSome(written[Dst])
        /\ Unwrap(written[Dst]).ok
        /\ Unwrap(written[Dst]).request.input = app'.input_path
        /\ Unwrap(written[Dst]).request.scale # app'.scale)
         => (/\ ExactPng(disk'[Dst], Src, app'.scale)
             /\ \A p \in Paths \ {Dst} : disk'[p] = disk[p])]_vars

C9_WillBeIsOriginalTimesScale ==
    ~crashed =>
        /\ IsSome(app.will_be_width) <=> IsSome(app.original_width)
        /\ IsSome(app.will_be_height) <=> IsSome(app.original_height)
        /\ IsSome(form.will_be_size) =>
              /\ Widen(Unwrap(app.will_be_width)) = Times(Unwrap(app.original_width), app.scale)
              /\ Widen(Unwrap(app.will_be_height)) = Times(Unwrap(app.original_height), app.scale)

\* C9: the label "Will be size: 400x200" is drawn for the logo at scale 4
C9_WillBe400x200 ==
    /\ app.scale = 4
    /\ form.original_size = Some(<<U32(100), U32(50)>>)
    /\ form.will_be_size = Some(<<U32(400), U32(200)>>)

\* C10: a frame without a click changes no file, does not invoke svg_to_png
\* and leaves the status line alone; update_dimensions alone (a redraw) also
\* leaves both paths and the scale alone; svg_to_png runs exactly once in a
\* frame exactly when Convert was clicked in it.
C10_QueryHasNoSideEffects ==
    [][/\ event' # "convert" =>
            /\ disk' = disk
            /\ calls' = calls
            /\ last' = last
            /\ app'.status_message = app.status_message
       /\ event' \in {"redraw", "panic"} =>
            /\ app'.input_path = app.input_path
            /\ app'.output_path = app.output_path
            /\ app'.scale = app.scale
       /\ event' = "convert" <=> clicks' = clicks + 1
       /\ clicks' = clicks + 1 <=> calls' = calls + 1
       /\ (calls' = calls \/ calls' = calls + 1)]_vars

\* C10: a redraw has re-read a source that is not an SVG while a conversion's
\* result and status were in place
C10_RedrawAfterConvert ==
    /\ event = "redraw"
    /\ calls = 1
    /\ app.input_path = "notes.txt"
    /\ Succeeded(app.status_message)
    /\ disk["output.png"].kind = "png"
====
